---------------------------- MODULE Spec2Model ----------------------------
(***************************************************************************)
(* The two Pelican configuration profiles of the repository,               *)
(* src/pelicanconf.py (current, minimal) and src/old/pelicanconf.py        *)
(* (older, fuller), as the programs they are: sequences of module-level    *)
(* assignment statements whose right-hand sides are Python literals and    *)
(* displays.  Loading a profile executes its statements one by one into a  *)
(* fresh module namespace; the namespace at the end of the file is the     *)
(* mapping from setting name to value that the site generator reads.       *)
(***************************************************************************)
EXTENDS Integers, Sequences, FiniteSets, TLC

(* Number of loads performed in one run of the model. *)
MaxLoads == 3

(***************************************************************************)
(* State.                                                                  *)
(***************************************************************************)
VARIABLES
  phase,   \* "idle", or "exec" while a file is being executed
  src,     \* the source being executed (or executed last)
  pc,      \* index of the next statement of Source(src)
  ns,      \* the module namespace: setting name -> value
  loads,   \* number of loads started
  last,    \* the last completed load: its number, source and settings
  prev     \* the completed load before it

vars == <<phase, src, pc, ns, loads, last, prev>>

(***************************************************************************)
(* Syntax: the expressions that occur on the right-hand sides.             *)
(***************************************************************************)
StrE(s) == [k |-> "str", s |-> s]

FloatE(lit) == [k |-> "float", lit |-> lit]

IntE(n) == [k |-> "int", n |-> n]

NameE(id) == [k |-> "name", id |-> id]

TupleE(elts) == [k |-> "tuple", elts |-> elts]

ListE(elts) == [k |-> "list", elts |-> elts]

DictE(keys, values) == [k |-> "dict", keys |-> keys, values |-> values]

Assign(line, target, value) == [line |-> line, target |-> target, value |-> value]

(***************************************************************************)
(* The statements of the two files, grouped as the files group them.       *)
(***************************************************************************)
\* CurrentIdentity with SITEURL taken from the environment of the load.
CurrentIdentityFromEnvironment ==
  <<
    Assign(1, "AUTHOR", StrE("Shailesh Kumar")),
    Assign(2, "SITENAME", StrE("In Digits")),
    Assign(3, "SITEURL",
        StrE(IF loads = 1 THEN "" ELSE "http://localhost:8000")),
    Assign(5, "PATH", StrE("content")),
    Assign(7, "TIMEZONE", StrE("Asia/Kolkata")),
    Assign(9, "DEFAULT_LANG", StrE("English"))
  >>

\* src/pelicanconf.py lines 1-9
CurrentIdentity ==
  <<
    Assign(1, "AUTHOR", StrE("Shailesh Kumar")),
    Assign(2, "SITENAME", StrE("In Digits")),
    Assign(3, "SITEURL", StrE("")),
    Assign(5, "PATH", StrE("content")),
    Assign(7, "TIMEZONE", StrE("Asia/Kolkata")),
    Assign(9, "DEFAULT_LANG", StrE("English"))
  >>

\* CurrentFeeds with the site-wide Atom feed switched on.
CurrentFeedsAtomOn ==
  <<
    Assign(12, "FEED_ALL_ATOM", StrE("feeds/all.atom.xml")),
    Assign(13, "CATEGORY_FEED_ATOM", NameE("None")),
    Assign(14, "TRANSLATION_FEED_ATOM", NameE("None")),
    Assign(15, "AUTHOR_FEED_ATOM", NameE("None")),
    Assign(16, "AUTHOR_FEED_RSS", NameE("None"))
  >>

\* src/pelicanconf.py lines 11-16
CurrentFeeds ==
  <<
    Assign(12, "FEED_ALL_ATOM", NameE("None")),
    Assign(13, "CATEGORY_FEED_ATOM", NameE("None")),
    Assign(14, "TRANSLATION_FEED_ATOM", NameE("None")),
    Assign(15, "AUTHOR_FEED_ATOM", NameE("None")),
    Assign(16, "AUTHOR_FEED_RSS", NameE("None"))
  >>

\* CurrentBlogroll with the CR-Sparse label used for two entries.
CurrentBlogrollRepeatedLabel ==
  <<
    Assign(19, "LINKS",
        TupleE(<<
          TupleE(<<
            StrE("Optimization Book"),
            StrE("https://convex.indigits.com")
          >>),
          TupleE(<<
            StrE("CR-Sparse"),
            StrE("https://github.com/carnotresearch/cr-sparse")
          >>),
          TupleE(<<StrE("CR-Sparse"), StrE("https://interrasystems.com")>>),
          TupleE(<<StrE("JAX"), StrE("https://github.com/google/jax")>>)
        >>))
  >>

\* src/pelicanconf.py lines 18-24
CurrentBlogroll ==
  <<
    Assign(19, "LINKS",
        TupleE(<<
          TupleE(<<
            StrE("Optimization Book"),
            StrE("https://convex.indigits.com")
          >>),
          TupleE(<<
            StrE("CR-Sparse"),
            StrE("https://github.com/carnotresearch/cr-sparse")
          >>),
          TupleE(<<StrE("Interra"), StrE("https://interrasystems.com")>>),
          TupleE(<<StrE("JAX"), StrE("https://github.com/google/jax")>>)
        >>))
  >>

\* CurrentSocial with the comma of the last pair left out: Python joins
\* the two adjacent string literals and the entry is a string, not a pair.
CurrentSocialMissingComma ==
  <<
    Assign(27, "SOCIAL",
        TupleE(<<
          TupleE(<<StrE("twitter"), StrE("http://twitter.com/shailesh1729")>>),
          TupleE(<<StrE("github"), StrE("http://github.com/shailesh1729")>>),
          TupleE(<<
            StrE("linkedin"),
            StrE("https://www.linkedin.com/in/shaileshkumar1729")
          >>),
          TupleE(<<
            StrE("facebook"),
            StrE("https://www.facebook.com/shailesh.kumar.9484")
          >>),
          StrE("mediumhttps://shaileshk.medium.com")
        >>))
  >>

\* src/pelicanconf.py lines 26-32
CurrentSocial ==
  <<
    Assign(27, "SOCIAL",
        TupleE(<<
          TupleE(<<StrE("twitter"), StrE("http://twitter.com/shailesh1729")>>),
          TupleE(<<StrE("github"), StrE("http://github.com/shailesh1729")>>),
          TupleE(<<
            StrE("linkedin"),
            StrE("https://www.linkedin.com/in/shaileshkumar1729")
          >>),
          TupleE(<<
            StrE("facebook"),
            StrE("https://www.facebook.com/shailesh.kumar.9484")
          >>),
          TupleE(<<StrE("medium"), StrE("https://shaileshk.medium.com")>>)
        >>))
  >>

\* CurrentPagination with ten articles per page.
CurrentPaginationTen ==
  <<
    Assign(34, "DEFAULT_PAGINATION", IntE(10))
  >>

\* src/pelicanconf.py lines 34-34
CurrentPagination ==
  <<
    Assign(34, "DEFAULT_PAGINATION", NameE("False"))
  >>

\* src/old/pelicanconf.py lines 1-12
OldIdentity ==
  <<
    Assign(1, "AUTHOR", StrE("Shailesh Kumar")),
    Assign(2, "SITENAME", StrE("In Digits")),
    Assign(3, "SITEURL", StrE("")),
    Assign(5, "PATH", StrE("content")),
    Assign(7, "THEME", StrE("elegant")),
    Assign(9, "TIMEZONE", StrE("Asia/Kolkata")),
    Assign(10, "DATE_FORMATS",
        DictE(<<StrE("en")>>,
              <<StrE("%b %d, %Y")>>)),
    Assign(12, "DEFAULT_LANG", StrE("en"))
  >>

\* src/old/pelicanconf.py lines 14-19
OldFeeds ==
  <<
    Assign(15, "FEED_ALL_ATOM", NameE("None")),
    Assign(16, "CATEGORY_FEED_ATOM", NameE("None")),
    Assign(17, "TRANSLATION_FEED_ATOM", NameE("None")),
    Assign(18, "AUTHOR_FEED_ATOM", NameE("None")),
    Assign(19, "AUTHOR_FEED_RSS", NameE("None"))
  >>

\* OldBlogroll with the JAX entry left out.
OldBlogrollWithoutJax ==
  <<
    Assign(22, "LINKS",
        TupleE(<<
          TupleE(<<
            StrE("Optimization Book"),
            StrE("https://convex.indigits.com")
          >>),
          TupleE(<<
            StrE("CR-Sparse"),
            StrE("https://github.com/carnotresearch/cr-sparse")
          >>),
          TupleE(<<StrE("Interra"), StrE("https://interrasystems.com")>>)
        >>))
  >>

\* src/old/pelicanconf.py lines 21-27
OldBlogroll ==
  <<
    Assign(22, "LINKS",
        TupleE(<<
          TupleE(<<
            StrE("Optimization Book"),
            StrE("https://convex.indigits.com")
          >>),
          TupleE(<<
            StrE("CR-Sparse"),
            StrE("https://github.com/carnotresearch/cr-sparse")
          >>),
          TupleE(<<StrE("Interra"), StrE("https://interrasystems.com")>>),
          TupleE(<<StrE("JAX"), StrE("https://github.com/google/jax")>>)
        >>))
  >>

\* src/old/pelicanconf.py lines 29-36
OldSocial ==
  <<
    Assign(30, "SOCIAL",
        TupleE(<<
          TupleE(<<StrE("twitter"), StrE("http://twitter.com/shailesh1729")>>),
          TupleE(<<StrE("github"), StrE("http://github.com/shailesh1729")>>),
          TupleE(<<
            StrE("linkedin"),
            StrE("https://www.linkedin.com/in/shaileshkumar1729")
          >>),
          TupleE(<<
            StrE("facebook"),
            StrE("https://www.facebook.com/shailesh.kumar.9484")
          >>),
          TupleE(<<
            StrE("youtube"),
            StrE("https://www.youtube.com/channel/UC_cwiJQwHSDlDl-IGnu-0fw")
          >>),
          TupleE(<<StrE("medium"), StrE("https://shaileshk.medium.com")>>)
        >>))
  >>

\* src/old/pelicanconf.py lines 38-38
OldPagination ==
  <<
    Assign(38, "DEFAULT_PAGINATION", NameE("False"))
  >>

\* src/old/pelicanconf.py lines 43-52
OldDefaults ==
  <<
    Assign(44, "DEFAULT_CATEGORY", StrE("Miscellaneous")),
    Assign(45, "USE_FOLDER_AS_CATEGORY", NameE("False")),
    Assign(46, "ARTICLE_URL", StrE("{slug}")),
    Assign(47, "PAGE_URL", StrE("{slug}")),
    Assign(48, "PAGE_SAVE_AS", StrE("{slug}.html")),
    Assign(49, "TAGS_URL", StrE("tags")),
    Assign(50, "CATEGORIES_URL", StrE("categories")),
    Assign(51, "ARCHIVES_URL", StrE("archives")),
    Assign(52, "SEARCH_URL", StrE("search"))
  >>

\* src/old/pelicanconf.py lines 54-58
OldSitemap ==
  <<
    Assign(54, "SITEMAP",
        DictE(<<StrE("format"), StrE("priorities"), StrE("changefreqs")>>,
              <<
          StrE("xml"),
          DictE(<<StrE("articles"), StrE("indexes"), StrE("pages")>>,
                <<FloatE("0.5"), FloatE("0.5"), FloatE("0.5")>>),
          DictE(<<StrE("articles"), StrE("indexes"), StrE("pages")>>,
                <<StrE("monthly"), StrE("daily"), StrE("monthly")>>)
        >>))
  >>

\* src/old/pelicanconf.py lines 61-65
OldTemplates ==
  <<
    Assign(61, "DIRECT_TEMPLATES",
        ListE(<<
          StrE("index"),
          StrE("tags"),
          StrE("categories"),
          StrE("archives"),
          StrE("search"),
          StrE("404")
        >>)),
    Assign(62, "TAG_SAVE_AS", StrE("")),
    Assign(63, "AUTHOR_SAVE_AS", StrE("")),
    Assign(64, "CATEGORY_SAVE_AS", StrE("")),
    Assign(65, "USE_SHORTCUT_ICONS", NameE("True"))
  >>

\* src/old/pelicanconf.py lines 68-85
OldLabels ==
  <<
    Assign(69, "SOCIAL_PROFILE_LABEL", StrE("Stay in Touch")),
    Assign(70, "RELATED_POSTS_LABEL", StrE("Keep Reading")),
    Assign(71, "SHARE_POST_INTRO", StrE("Like this post? Share on:")),
    Assign(72, "COMMENTS_INTRO",
        StrE("So what do you think? Did I miss something? Is any part unclear? Leave your comments below.")),
    Assign(76, "EMAIL_SUBSCRIPTION_LABEL", StrE("Get New Release Alert")),
    Assign(77, "EMAIL_FIELD_PLACEHOLDER", StrE("Enter your email...")),
    Assign(78, "SUBSCRIBE_BUTTON_TITLE", StrE("Notify me")),
    Assign(80, "DISQUS_FILTER", NameE("True")),
    Assign(81, "UTTERANCES_FILTER", NameE("True")),
    Assign(82, "COMMENTBOX_FILTER", NameE("True")),
    Assign(85, "LANDING_PAGE_TITLE", StrE("Musings of Shailesh Kumar"))
  >>

\* OldProjects with the description of the second project left out.
OldProjectsMissingDescription ==
  <<
    Assign(87, "PROJECTS_TITLE", StrE("My Projects")),
    Assign(88, "PROJECTS",
        ListE(<<
          DictE(<<StrE("name"), StrE("url"), StrE("description")>>,
                <<
            StrE("CR-Sparse"),
            StrE("https://github.com/carnotresearch/cr-sparse"),
            StrE("Functional models and algorithms for sparse signal processing")
          >>),
          DictE(<<StrE("name"), StrE("url")>>,
                <<
            StrE("Convex Optimization Book"),
            StrE("https://github.com/shailesh1729/cvx-opt-book")
          >>)
        >>))
  >>

\* src/old/pelicanconf.py lines 87-99
OldProjects ==
  <<
    Assign(87, "PROJECTS_TITLE", StrE("My Projects")),
    Assign(88, "PROJECTS",
        ListE(<<
          DictE(<<StrE("name"), StrE("url"), StrE("description")>>,
                <<
            StrE("CR-Sparse"),
            StrE("https://github.com/carnotresearch/cr-sparse"),
            StrE("Functional models and algorithms for sparse signal processing")
          >>),
          DictE(<<StrE("name"), StrE("url"), StrE("description")>>,
                <<
            StrE("Convex Optimization Book"),
            StrE("https://github.com/shailesh1729/cvx-opt-book"),
            StrE("A book on mathematics related to convex optimization for signal processing")
          >>)
        >>))
  >>


CurrentProgram ==
  CurrentIdentity \o CurrentFeeds \o CurrentBlogroll \o CurrentSocial
    \o CurrentPagination

OldProgram ==
  OldIdentity \o OldFeeds \o OldBlogroll \o OldSocial \o OldPagination
    \o OldDefaults \o OldSitemap \o OldTemplates \o OldLabels \o OldProjects

Profiles == {"current", "old"}

Program(p) == IF p = "current" THEN CurrentProgram ELSE OldProgram

(***************************************************************************)
(* Values: Python objects, tagged with their type.                         *)
(***************************************************************************)
StrV(s) == [t |-> "str", v |-> s]

FloatV(lit) == [t |-> "float", v |-> lit]

IntV(n) == [t |-> "int", v |-> n]

BoolV(b) == [t |-> "bool", v |-> b]

NoneV == [t |-> "NoneType", v |-> "None"]

TupleV(s) == [t |-> "tuple", v |-> s]

ListV(s) == [t |-> "list", v |-> s]

DictV(f) == [t |-> "dict", v |-> f]

(* The empty mapping: a fresh module namespace, an empty dict. *)
Empty == [x \in {} |-> NoneV]

(* Binding a name: a new binding is added, an existing one is replaced. *)
Bind(f, name, val) == (name :> val) @@ f

(***************************************************************************)
(* Evaluation of an expression to a value.                                 *)
(***************************************************************************)
EvalName(id) ==
  CASE id = "None" -> NoneV
    [] id = "True" -> BoolV(TRUE)
    [] id = "False" -> BoolV(FALSE)

RECURSIVE Eval(_), EvalElts(_), EvalEltsReversed(_), EvalItems(_, _)

(* EvalElts collecting the elements in the opposite order. *)
EvalEltsReversed(elts) ==
  IF Len(elts) = 0 THEN <<>>
  ELSE EvalElts(Tail(elts)) \o <<Eval(Head(elts))>>

(* A display's elements are evaluated left to right into a sequence. *)
EvalElts(elts) ==
  IF Len(elts) = 0 THEN <<>>
  ELSE <<Eval(Head(elts))>> \o EvalElts(Tail(elts))

(* A dict display inserts its items left to right; a later key replaces. *)
EvalItems(keys, values) ==
  IF Len(keys) = 0 THEN Empty
  ELSE LET n == Len(keys)
       IN  Bind(EvalItems(SubSeq(keys, 1, n - 1), SubSeq(values, 1, n - 1)),
                Eval(keys[n]).v, Eval(values[n]))

Eval(e) ==
  CASE e.k = "str" -> StrV(e.s)
    [] e.k = "float" -> FloatV(e.lit)
    [] e.k = "int" -> IntV(e.n)
    [] e.k = "name" -> EvalName(e.id)
    [] e.k = "tuple" -> TupleV(EvalElts(e.elts))
    [] e.k = "list" -> ListV(EvalElts(e.elts))
    [] e.k = "dict" -> DictV(EvalItems(e.keys, e.values))

(***************************************************************************)
(* Configuration sources.  A source is a profile with some of its optional *)
(* settings left out (commented out, as RELATIVE_URLS is in both files).   *)
(***************************************************************************)
FeedOptions ==
  {"FEED_ALL_ATOM", "CATEGORY_FEED_ATOM", "TRANSLATION_FEED_ATOM",
   "AUTHOR_FEED_ATOM", "AUTHOR_FEED_RSS"}

OptionalKeys == FeedOptions \cup {"DEFAULT_PAGINATION"}

OmittedChoices == {{}} \cup {{k} : k \in OptionalKeys} \cup {OptionalKeys}

Sources == [profile : Profiles, omitted : OmittedChoices]

Source(s) ==
  SelectSeq(Program(s.profile), LAMBDA st : st.target \notin s.omitted)

(***************************************************************************)
(* What the consumer reads off a loaded configuration.                     *)
(***************************************************************************)
feed_enabled(cfg, k) == k \in DOMAIN cfg /\ cfg[k].t # "NoneType"

pagination_enabled(cfg) ==
  /\ "DEFAULT_PAGINATION" \in DOMAIN cfg
  /\ LET x == cfg["DEFAULT_PAGINATION"]
     IN  \/ x.t = "bool" /\ x.v
         \/ x.t = "int" /\ x.v # 0

(***************************************************************************)
(* Loading.                                                                *)
(***************************************************************************)
NoSource == [profile |-> "none", omitted |-> {}]

NoLoad == [n |-> 0, src |-> NoSource, cfg |-> Empty]

Init ==
  /\ phase = "idle"
  /\ src = NoSource
  /\ pc = 0
  /\ ns = Empty
  /\ loads = 0
  /\ last = NoLoad
  /\ prev = NoLoad

(* The file of source s starts executing in a fresh namespace. *)
StartLoad(s) ==
  /\ phase = "idle"
  /\ loads < MaxLoads
  /\ phase' = "exec"
  /\ src' = s
  /\ pc' = 1
  /\ ns' = Empty
  /\ loads' = loads + 1
  /\ UNCHANGED <<last, prev>>

(* One assignment statement: evaluate the right-hand side, bind the name. *)
ExecStmt ==
  /\ phase = "exec"
  /\ pc <= Len(Source(src))
  /\ LET st == Source(src)[pc]
     IN  ns' = Bind(ns, st.target, Eval(st.value))
  /\ pc' = pc + 1
  /\ UNCHANGED <<phase, src, loads, last, prev>>

(* End of file: the namespace is the loaded configuration. *)
FinishLoad ==
  /\ phase = "exec"
  /\ pc > Len(Source(src))
  /\ phase' = "idle"
  /\ last' = [n |-> loads, src |-> src, cfg |-> ns]
  /\ prev' = last
  /\ UNCHANGED <<src, pc, ns, loads>>

Next ==
  \/ \E s \in Sources : StartLoad(s)
  \/ ExecStmt
  \/ FinishLoad

Spec == Init /\ [][Next]_vars


(***************************************************************************)
(* Helpers for the properties.                                             *)
(***************************************************************************)
Done(r) == r.n > 0

Unmodified(r, p) == Done(r) /\ r.src = [profile |-> p, omitted |-> {}]

IsStr(x) == x.t = "str"

IsSeq(x) == x.t \in {"tuple", "list"}

IsPair(x) ==
  /\ x.t = "tuple"
  /\ Len(x.v) = 2
  /\ IsStr(x.v[1])
  /\ IsStr(x.v[2])

IsPairSeq(x) == IsSeq(x) /\ \A i \in 1..Len(x.v) : IsPair(x.v[i])

IsStrSeq(x) == IsSeq(x) /\ \A i \in 1..Len(x.v) : IsStr(x.v[i])

IsNestedMapping(x) ==
  /\ x.t = "dict"
  /\ \E k \in DOMAIN x.v : x.v[k].t = "dict"

ValEq(a, b) == a.t = b.t /\ a.v = b.v

StringOptions ==
  {"AUTHOR", "SITENAME", "SITEURL", "PATH", "TIMEZONE", "DEFAULT_LANG",
   "THEME"}

(* The declared names that end in _URL, and those that end in _SAVE_AS. *)
UrlOptions ==
  {"ARTICLE_URL", "PAGE_URL", "TAGS_URL", "CATEGORIES_URL", "ARCHIVES_URL",
   "SEARCH_URL"}

SaveAsOptions ==
  {"PAGE_SAVE_AS", "TAG_SAVE_AS", "AUTHOR_SAVE_AS", "CATEGORY_SAVE_AS"}

DocumentedType(k, x) ==
  /\ k \in StringOptions \cup UrlOptions \cup SaveAsOptions => IsStr(x)
  /\ k \in FeedOptions => IsStr(x) \/ x.t = "NoneType"
  /\ k \in {"LINKS", "SOCIAL"} => IsPairSeq(x)
  /\ k = "DEFAULT_PAGINATION" => x.t \in {"bool", "int"}
  /\ k = "DIRECT_TEMPLATES" => IsStrSeq(x)
  /\ k = "SITEMAP" => IsNestedMapping(x)

AllDocumented(cfg) == \A k \in DOMAIN cfg : DocumentedType(k, cfg[k])

(* C1: in both profiles every recognized option that is declared has a   *)
(* value of its documented type (a feed option set to None counts as     *)
(* absent), in the namespace while it is built and in every loaded       *)
(* configuration.                                                        *)
C1_DocumentedTypes ==
  /\ AllDocumented(ns)
  /\ AllDocumented(last.cfg)
  /\ AllDocumented(prev.cfg)

C1_Witness ==
  /\ Unmodified(prev, "current")
  /\ Unmodified(last, "old")
  /\ {"LINKS", "SOCIAL", "DEFAULT_PAGINATION"} \subseteq DOMAIN prev.cfg
  /\ {"SITEMAP", "DIRECT_TEMPLATES", "THEME", "PAGE_SAVE_AS"}
       \subseteq DOMAIN last.cfg

FeedsDisabled(r) ==
  Done(r) =>
    /\ \A k \in r.src.omitted : k \notin DOMAIN r.cfg
    /\ \A k \in FeedOptions : ~feed_enabled(r.cfg, k)
    /\ "DEFAULT_PAGINATION" \in r.src.omitted => ~pagination_enabled(r.cfg)

Declared(p, key) ==
  LET prog == Program(p)
      i == CHOOSE i \in 1..Len(prog) : prog[i].target = key
  IN  prog[i].value

(* val has the declared pairs, as many and at the same indices. *)
SameAsDeclared(val, decl) ==
  /\ val.t = "tuple"
  /\ Len(val.v) = Len(decl.elts)
  /\ \A i \in 1..Len(decl.elts) :
       /\ val.v[i].t = "tuple"
       /\ Len(val.v[i].v) = 2
       /\ Len(decl.elts[i].elts) = 2
       /\ ValEq(val.v[i].v[1], StrV(decl.elts[i].elts[1].s))
       /\ ValEq(val.v[i].v[2], StrV(decl.elts[i].elts[2].s))

Labels(val) == [i \in 1..Len(val.v) |-> val.v[i].v[1].v]

OrderKept(r) ==
  Done(r) =>
    /\ SameAsDeclared(r.cfg["LINKS"], Declared(r.src.profile, "LINKS"))
    /\ SameAsDeclared(r.cfg["SOCIAL"], Declared(r.src.profile, "SOCIAL"))
    /\ r.src.profile = "current" =>
         /\ Labels(r.cfg["LINKS"])
              = <<"Optimization Book", "CR-Sparse", "Interra", "JAX">>
         /\ Labels(r.cfg["SOCIAL"])
              = <<"twitter", "github", "linkedin", "facebook", "medium">>

(* C3: the LINKS and SOCIAL of a loaded configuration are the declared   *)
(* sequences, pair for pair in declaration order; for the current        *)
(* profile, Optimization Book, CR-Sparse, Interra, JAX and twitter,      *)
(* github, linkedin, facebook, medium.                                   *)
C3_DeclarationOrder == OrderKept(last) /\ OrderKept(prev)

C3_Witness ==
  /\ Done(prev)
  /\ prev.src.profile = "old"
  /\ Len(prev.cfg["SOCIAL"].v) = 6
  /\ Done(last)
  /\ last.src.profile = "current"
  /\ Len(last.cfg["LINKS"].v) = 4
  /\ Len(last.cfg["SOCIAL"].v) = 5

(* C4: two loads of the same source in succession, whatever was loaded   *)
(* before them, give the same configuration: the same setting names with *)
(* the same values.                                                      *)
C4_ReloadIdentical ==
  (Done(prev) /\ Done(last) /\ prev.src = last.src) =>
    /\ DOMAIN prev.cfg = DOMAIN last.cfg
    /\ \A k \in DOMAIN prev.cfg : ValEq(prev.cfg[k], last.cfg[k])

C4_Witness ==
  /\ prev.n = 2
  /\ last.n = 3
  /\ prev.src = last.src
  /\ last.src.profile = "current"
  /\ "SITEURL" \in DOMAIN last.cfg

SiteNameAndPagination(r) ==
  Done(r) =>
    /\ "SITENAME" \in DOMAIN r.cfg
    /\ ValEq(r.cfg["SITENAME"], StrV("In Digits"))
    /\ "DEFAULT_PAGINATION" \notin r.src.omitted =>
         /\ "DEFAULT_PAGINATION" \in DOMAIN r.cfg
         /\ ValEq(r.cfg["DEFAULT_PAGINATION"], BoolV(FALSE))

(* C6: loading either profile gives SITENAME equal to "In Digits" and    *)
(* DEFAULT_PAGINATION equal to False.                                    *)
C6_SiteNameAndPagination ==
  SiteNameAndPagination(last) /\ SiteNameAndPagination(prev)

C6_Witness ==
  /\ Unmodified(prev, "old")
  /\ Unmodified(last, "current")
  /\ prev.cfg["DEFAULT_PAGINATION"].t = "bool"
  /\ last.cfg["DEFAULT_PAGINATION"].t = "bool"

IsProject(x) ==
  /\ x.t = "dict"
  /\ DOMAIN x.v = {"name", "url", "description"}
  /\ \A k \in DOMAIN x.v : IsStr(x.v[k])

ProjectsOnlyInOld(r) ==
  Done(r) =>
    /\ r.src.profile = "current" =>
         DOMAIN r.cfg \cap {"PROJECTS", "PROJECTS_TITLE"} = {}
    /\ r.src.profile = "old" =>
         /\ {"PROJECTS", "PROJECTS_TITLE"} \subseteq DOMAIN r.cfg
         /\ IsStr(r.cfg["PROJECTS_TITLE"])
         /\ IsSeq(r.cfg["PROJECTS"])
         /\ \A i \in 1..Len(r.cfg["PROJECTS"].v) :
              IsProject(r.cfg["PROJECTS"].v[i])

(* C8: PROJECTS and PROJECTS_TITLE are declared in the fuller profile    *)
(* only; there PROJECTS is a sequence of records with exactly the keys   *)
(* name, url and description, each a string, and PROJECTS_TITLE is a     *)
(* string.                                                               *)
C8_ProjectsOnlyInOld == ProjectsOnlyInOld(last) /\ ProjectsOnlyInOld(prev)

C8_Witness ==
  /\ Done(prev)
  /\ prev.src.profile = "current"
  /\ Done(last)
  /\ last.src.profile = "old"
  /\ Len(last.cfg["PROJECTS"].v) = 2

(* s without its element at index i. *)
RemoveAt(s, i) == SubSeq(s, 1, i - 1) \o SubSeq(s, i + 1, Len(s))

(* full extends min: the same names and more, the same values but for    *)
(* DEFAULT_LANG and for SOCIAL, which has youtube added at index 5.      *)
Extends(min, full) ==
  /\ DOMAIN min \subseteq DOMAIN full
  /\ \A k \in DOMAIN min \ {"DEFAULT_LANG", "SOCIAL"} :
       ValEq(min[k], full[k])
  /\ ValEq(min["LINKS"], full["LINKS"])
  /\ ValEq(min["DEFAULT_LANG"], StrV("English"))
  /\ ValEq(full["DEFAULT_LANG"], StrV("en"))
  /\ full["SOCIAL"].t = min["SOCIAL"].t
  /\ Len(full["SOCIAL"].v) = Len(min["SOCIAL"].v) + 1
  /\ Labels(full["SOCIAL"])[4] = "facebook"
  /\ Labels(full["SOCIAL"])[5] = "youtube"
  /\ Labels(full["SOCIAL"])[6] = "medium"
  /\ RemoveAt(full["SOCIAL"].v, 5) = min["SOCIAL"].v

(* C9: every name the minimal profile declares the fuller one declares   *)
(* too, with an equal value except for DEFAULT_LANG ('English' against   *)
(* 'en') and SOCIAL (the fuller profile has youtube added between        *)
(* facebook and medium); LINKS is the same in both.                      *)
C9_OldExtendsCurrent ==
  /\ (Unmodified(prev, "current") /\ Unmodified(last, "old"))
       => Extends(prev.cfg, last.cfg)
  /\ (Unmodified(prev, "old") /\ Unmodified(last, "current"))
       => Extends(last.cfg, prev.cfg)

C9_Witness ==
  /\ Unmodified(prev, "current")
  /\ Unmodified(last, "old")
  /\ Cardinality(DOMAIN prev.cfg) < Cardinality(DOMAIN last.cfg)

(* No first component and no second component occurs twice in val. *)
Injective(val) ==
  \A i, j \in 1..Len(val.v) :
    i # j =>
      /\ val.v[i].v[1] # val.v[j].v[1]
      /\ val.v[i].v[2] # val.v[j].v[2]

NoRepeats(r) ==
  Done(r) => Injective(r.cfg["LINKS"]) /\ Injective(r.cfg["SOCIAL"])

(* C10: within each profile no label and no URL occurs twice in LINKS,   *)
(* and no platform and no URL occurs twice in SOCIAL.                    *)
C10_NoRepeats == NoRepeats(last) /\ NoRepeats(prev)

C10_Witness ==
  /\ Done(prev)
  /\ prev.src.profile = "old"
  /\ Len(prev.cfg["LINKS"].v) = 4
  /\ Len(prev.cfg["SOCIAL"].v) = 6
  /\ Done(last)
  /\ last.src.profile = "current"
  /\ Len(last.cfg["SOCIAL"].v) = 5

=============================================================================
